---- MODULE Spec2Model ----
(***************************************************************************)
(* Model of osmosis/emd/pyemd.c: the Python binding compute_emd() around   *)
(* the Earth Mover's Distance solver emd().                                *)
(*                                                                         *)
(* compute_emd() is translated from pyemd.c.  The solver emd() it calls    *)
(* (declared in emd.h, its source not among these files) is modelled from  *)
(* the design specification: the greedy lowest-cost-first builder, the     *)
(* pivoting loop with its iteration cap, and the result extractor.         *)
(* Numbers are small integers, which the C float type holds exactly.       *)
(***************************************************************************)
EXTENDS Integers, Sequences, FiniteSets, TLC

VARIABLES
  weight1, weight2, cost,   \* the three Python arguments of the call
  pc,                       \* position in compute_emd
  i,                        \* the loop index
  length1, length2,         \* PySequence_Size of weight1, weight2
  w1, w2, c,                \* the C arrays filled by the conversion loops
  item,                     \* the object fetched by PySequence_GetItem
  refs,                     \* item references held and not yet released
  fetched, released,        \* references obtained / Py_DECREF calls so far
  nullSeen,                 \* a fetch returned NULL in this call
  outcome, errmsg,          \* how the call ended, and the error text
  emdCalled,                \* emd() was invoked in this call
  distance, result,         \* emd()'s float, and the returned Python number
  solver                    \* the working state of emd()

argVars == <<weight1, weight2, cost>>
loopVars == <<i, length1, length2, w1, w2, c, item>>
refVars == <<refs, fetched, released, nullSeen>>
endVars == <<outcome, errmsg, emdCalled, distance, result>>
vars == <<weight1, weight2, cost, pc, i, length1, length2, w1, w2, c, item,
          refs, fetched, released, nullSeen, outcome, errmsg, emdCalled,
          distance, result, solver>>

(***************************************************************************)
(* Bounds of the model.                                                    *)
(***************************************************************************)
MaxLen == 2        \* longest weight sequence handed to compute_emd
MaxCostLen == 3    \* longest cost sequence handed to compute_emd
MaxBins == 2       \* most bins per distribution handed to the solver
MaxCells == 4      \* longest cost matrix (n*m) handed to the solver
MaxWeight == 2     \* largest weight handed to the solver

\* Costs handed to the solver (5 is the cost of the one-bin scenario).
CostValues == {0, 1, 2, 5}

(***************************************************************************)
(* Python objects.  An item is an int, a float or some other object (a     *)
(* str); an argument is a sequence of items or an object that is not a     *)
(* sequence.  NULL is what PySequence_GetItem returns when it fails.       *)
(***************************************************************************)
PyInt(v) == [kind |-> "int", val |-> v]
PyFloat(v) == [kind |-> "float", val |-> v]
PyStr == [kind |-> "str", val |-> 0]
NULL == [kind |-> "NULL", val |-> 0]
PySeq(items) == [seq |-> TRUE, items |-> items]
NotSeq == [seq |-> FALSE, items |-> <<>>]

PySequence_Check(o) == o.seq
PySequence_Size(o) == Len(o.items)
PyFloat_Check(o) == o.kind = "float"
PyInt_Check(o) == o.kind = "int"

\* PySequence_GetItem(o, k) with the C index k: the item, or NULL when o
\* does not support indexing or k is out of range.
PySequence_GetItem(o, k) ==
  IF o.seq /\ k < Len(o.items) THEN o.items[k + 1] ELSE NULL

FloatMantissa == 24

RECURSIVE Pow2(_)
Pow2(k) == IF k = 0 THEN 1 ELSE 2 * Pow2(k - 1)

Abs(x) == IF x < 0 THEN -x ELSE x

\* The unit in the last place of the C float nearest to the integer x.
RECURSIVE Ulp(_, _)
Ulp(x, u) == IF Abs(x) < u * Pow2(FloatMantissa) THEN u ELSE Ulp(x, 2 * u)

\* PyFloat_AsDouble(item) stored into a float: round to nearest, ties to even.
AsFloat(x) ==
  LET u == Ulp(x, 1)
      q == x \div u
      r == x - q * u
  IN  IF 2 * r < u \/ (2 * r = u /\ q % 2 = 0) THEN q * u ELSE (q + 1) * u

PyFloat_AsDouble(o) == o.val

(***************************************************************************)
(* Sequences of at most k elements of S.                                   *)
(***************************************************************************)
SeqsUpTo(S, k) == UNION {[1..n -> S] : n \in 0..k}

WeightItems == {PyInt(-1), PyFloat(1), PyStr}
CostItems == {PyInt(0), PyFloat(1), PyStr}
WeightArgs == {NotSeq} \cup {PySeq(s) : s \in SeqsUpTo(WeightItems, MaxLen)}
CostArgs == {NotSeq} \cup {PySeq(s) : s \in SeqsUpTo(CostItems, MaxCostLen)}

NoSolver == [state |-> "NotStarted"]

InitCall ==
  /\ pc = "check"
  /\ i = 0 /\ length1 = 0 /\ length2 = 0
  /\ w1 = <<>> /\ w2 = <<>> /\ c = <<>>
  /\ item = NULL
  /\ refs = 0 /\ fetched = 0 /\ released = 0 /\ nullSeen = FALSE
  /\ outcome = "none" /\ errmsg = ""
  /\ emdCalled = FALSE /\ distance = 0 /\ result = 0
  /\ solver = NoSolver

Init ==
  /\ weight1 \in WeightArgs
  /\ weight2 \in WeightArgs
  /\ cost \in CostArgs
  /\ InitCall

(***************************************************************************)
(* compute_emd, lines 29-54: the sequence checks and the sizes.            *)
(***************************************************************************)
Fail(msg) ==
  /\ outcome' = "error"
  /\ errmsg' = msg
  /\ pc' = "done"
  /\ UNCHANGED <<emdCalled, distance, result>>

CheckArgs ==
  /\ pc = "check"
  /\ IF ~PySequence_Check(weight1)
       THEN Fail("weight1 must be a sequence") /\ UNCHANGED <<length1, length2>>
     ELSE IF ~PySequence_Check(weight2)
       THEN Fail("weight2 must be a sequence") /\ UNCHANGED <<length1, length2>>
     ELSE /\ length1' = PySequence_Size(weight1)
          /\ length2' = PySequence_Size(weight2)
          /\ IF PySequence_Size(weight1) # length1'
               THEN Fail("feature1 and weight1 must be the same")
             ELSE IF PySequence_Size(weight2) # length2'
               THEN Fail("feature2 and weight2 must be the same")
             ELSE pc' = "loop1" /\ UNCHANGED endVars
  /\ UNCHANGED <<i, w1, w2, c, item, solver>>
  /\ UNCHANGED argVars /\ UNCHANGED refVars

(***************************************************************************)
(* The three conversion loops, lines 56-87.  Each pass is two steps: the   *)
(* loop test with PySequence_GetItem, then the type check, the conversion  *)
(* and Py_DECREF.                                                          *)
(***************************************************************************)
\* for(i = 0; i < bound; i ++) { item = PySequence_GetItem(o, i); ...
ForFetch(here, chk, next, o, bound) ==
  /\ pc = here
  /\ IF i < bound
       THEN LET got == PySequence_GetItem(o, i)
            IN  /\ item' = got
                /\ refs' = IF got = NULL THEN refs ELSE refs + 1
                /\ fetched' = IF got = NULL THEN fetched ELSE fetched + 1
                /\ nullSeen' = (nullSeen \/ got = NULL)
                /\ pc' = chk
                /\ UNCHANGED i
       ELSE /\ pc' = next
            /\ i' = IF next = "emd" THEN i ELSE 0
            /\ UNCHANGED <<item, refs, fetched, nullSeen>>
  /\ UNCHANGED <<length1, length2, w1, w2, c, released, solver>>
  /\ UNCHANGED argVars /\ UNCHANGED endVars

Py_DECREF ==
  /\ refs' = refs - 1
  /\ released' = released + 1

\* ... if(!PyFloat_Check(item) && !PyInt_Check(item)) { Py_DECREF(item);
\* PyErr_SetString(...); return NULL; }  Whether the fetched item is a number.
IsNumber(o) == PyFloat_Check(o) \/ PyInt_Check(o)

\* A pass that returns on a non-number without releasing it.
ForCheckLeak(here, chk, msg, arr) ==
  /\ pc = chk
  /\ item # NULL
  /\ IF ~IsNumber(item)
       THEN Fail(msg) /\ UNCHANGED <<i, w1, w2, c, refs, released>>
       ELSE /\ Py_DECREF
            /\ w1' = IF arr = 1 THEN Append(w1, AsFloat(PyFloat_AsDouble(item))) ELSE w1
            /\ w2' = IF arr = 2 THEN Append(w2, AsFloat(PyFloat_AsDouble(item))) ELSE w2
            /\ c' = IF arr = 3 THEN Append(c, AsFloat(PyFloat_AsDouble(item))) ELSE c
            /\ i' = i + 1
            /\ pc' = here
            /\ UNCHANGED endVars
  /\ UNCHANGED <<length1, length2, item, fetched, nullSeen, solver>>
  /\ UNCHANGED argVars

\* The rest of one pass over an item that was fetched: reject it, or store
\* its value in arr and go on with the next index.
ForCheck(here, chk, msg, arr) ==
  /\ pc = chk
  /\ item # NULL
  /\ Py_DECREF
  /\ IF ~IsNumber(item)
       THEN Fail(msg) /\ UNCHANGED <<i, w1, w2, c>>
       ELSE /\ w1' = IF arr = 1 THEN Append(w1, AsFloat(PyFloat_AsDouble(item))) ELSE w1
            /\ w2' = IF arr = 2 THEN Append(w2, AsFloat(PyFloat_AsDouble(item))) ELSE w2
            /\ c' = IF arr = 3 THEN Append(c, AsFloat(PyFloat_AsDouble(item))) ELSE c
            /\ i' = i + 1
            /\ pc' = here
            /\ UNCHANGED endVars
  /\ UNCHANGED <<length1, length2, item, fetched, nullSeen, solver>>
  /\ UNCHANGED argVars

Loop1Fetch == ForFetch("loop1", "loop1_chk", "loop2", weight1, length1)
Loop1Check == ForCheck("loop1", "loop1_chk", "w1 should be a sequence of numbers", 1)
Loop2Fetch == ForFetch("loop2", "loop2_chk", "loop3", weight2, length2)
Loop2Check == ForCheck("loop2", "loop2_chk", "w2 should be a sequence of numbers", 2)
Loop3Fetch == ForFetch("loop3", "loop3_chk", "emd", cost, length1 * length2)
Loop3Check == ForCheck("loop3", "loop3_chk", "cost should be a sequence of numbers", 3)

(***************************************************************************)
(* Line 79 returns NULL when cost is not a sequence or is shorter than     *)
(* length1 * length2; line 80 then reads the type of a NULL object, which  *)
(* is undefined behaviour.  The process may die there, the check may read  *)
(* the object as no number (the error return), or as a number              *)
(* (PyFloat_AsDouble(NULL) is -1) and go on.                               *)
(***************************************************************************)
Loop3NullCrash ==
  /\ pc = "loop3_chk" /\ item = NULL
  /\ outcome' = "crash" /\ pc' = "done"
  /\ UNCHANGED <<errmsg, emdCalled, distance, result, solver>>
  /\ UNCHANGED loopVars /\ UNCHANGED argVars /\ UNCHANGED refVars

Loop3NullError ==
  /\ pc = "loop3_chk" /\ item = NULL
  /\ Py_DECREF
  /\ Fail("cost should be a sequence of numbers")
  /\ UNCHANGED <<fetched, nullSeen, solver>>
  /\ UNCHANGED loopVars /\ UNCHANGED argVars

Loop3NullGoOn ==
  /\ pc = "loop3_chk" /\ item = NULL
  /\ Py_DECREF
  /\ c' = Append(c, -1)
  /\ i' = i + 1
  /\ pc' = "loop3"
  /\ UNCHANGED <<length1, length2, w1, w2, item, fetched, nullSeen, solver>>
  /\ UNCHANGED argVars /\ UNCHANGED endVars

(***************************************************************************)
(* emd(): the transportation-simplex solver.                               *)
(*                                                                         *)
(* The working state is a record: the two signatures and the cost array,   *)
(* the balanced problem built from them (N supply rows, M demand columns:  *)
(* the side with the smaller total gets a zero-cost dump bin for the       *)
(* excess), the FlowAssignment (flow per cell and the set of basic cells), *)
(* the builder's remaining rows, columns, supply and demand, the pivot     *)
(* count, the state of the state machine and the error.                    *)
(***************************************************************************)
RECURSIVE SumSeq(_)
SumSeq(s) == IF s = <<>> THEN 0 ELSE Head(s) + SumSeq(Tail(s))

Min(a, b) == IF a <= b THEN a ELSE b

\* Row-major scan order of cells: lowest supply index, then lowest demand index.
Before(a, b) == a[1] < b[1] \/ (a[1] = b[1] /\ a[2] < b[2])

Cells(sv) == (1..sv.N) \X (1..sv.M)
RealCells(sv) == (1..sv.n) \X (1..sv.m)

\* cost[i][j] of the flattened row-major matrix; a dump bin's cells cost 0.
CostAt(sv, a) ==
  IF a[1] <= sv.n /\ a[2] <= sv.m THEN sv.c[(a[1] - 1) * sv.m + a[2]] ELSE 0

\* The fields of a solver record that never ran.
Blank(sig1, sig2, cc) ==
  [state |-> "NotStarted", error |-> "none",
   n |-> sig1.n, m |-> sig2.n, w1 |-> sig1.Weights, w2 |-> sig2.Weights, c |-> cc,
   N |-> 0, M |-> 0, supply |-> <<>>, demand |-> <<>>,
   rowsLeft |-> {}, colsLeft |-> {}, s |-> <<>>, d |-> <<>>,
   flow |-> <<>>, basic |-> {}, iter |-> 0]

\* Input validation: n = 0, m = 0 or a negative weight is an InvalidInputError
\* and the solver does not start.
InvalidInput(sig1, sig2) ==
  \/ sig1.n = 0
  \/ sig2.n = 0
  \/ \E k \in 1..sig1.n : sig1.Weights[k] < 0
  \/ \E k \in 1..sig2.n : sig2.Weights[k] < 0

\* Entry of emd(): validate, add the dump bin, and enter Initializing with an
\* empty FlowAssignment and every row and column still open.
EmdStart(sig1, sig2, cc) ==
  IF InvalidInput(sig1, sig2)
    THEN [Blank(sig1, sig2, cc) EXCEPT !.error = "InvalidInputError"]
    ELSE LET t1 == SumSeq(sig1.Weights)
             t2 == SumSeq(sig2.Weights)
             sup == IF t2 > t1 THEN Append(sig1.Weights, t2 - t1) ELSE sig1.Weights
             dem == IF t1 > t2 THEN Append(sig2.Weights, t1 - t2) ELSE sig2.Weights
         IN  [Blank(sig1, sig2, cc) EXCEPT
                !.state = "Initializing",
                !.N = Len(sup), !.M = Len(dem),
                !.supply = sup, !.demand = dem,
                !.rowsLeft = 1..Len(sup), !.colsLeft = 1..Len(dem),
                !.s = sup, !.d = dem,
                !.flow = [a \in (1..Len(sup)) \X (1..Len(dem)) |-> 0]]

\* The cell the greedy rule takes next: smallest cost among the open rows and
\* columns, ties by scan order.
GreedyPick(sv) ==
  LET cand == sv.rowsLeft \X sv.colsLeft
  IN  CHOOSE a \in cand : \A b \in cand \ {a} :
        CostAt(sv, a) < CostAt(sv, b) \/ (CostAt(sv, a) = CostAt(sv, b) /\ Before(a, b))

\* Closing the row whenever it runs out, also the last open row on a tie.
ClosesRowOnTie(sv, a) == sv.s[a[1]] <= sv.d[a[2]]

\* Whether the step on cell a closes its row (otherwise its column).  One of
\* the two is closed per step; when both run out together the row is closed
\* unless it is the last open row.
ClosesRow(sv, a) ==
  \/ sv.s[a[1]] < sv.d[a[2]]
  \/ (sv.s[a[1]] = sv.d[a[2]] /\ Cardinality(sv.rowsLeft) > 1)

\* One step of the Basic Feasible Solution Builder: saturate the picked cell,
\* make it basic, close the exhausted row or column; Iterating once no cell
\* is left.
BuildStep(sv) ==
  LET a == GreedyPick(sv)
      x == Min(sv.s[a[1]], sv.d[a[2]])
      rows == IF ClosesRow(sv, a) THEN sv.rowsLeft \ {a[1]} ELSE sv.rowsLeft
      cols == IF ClosesRow(sv, a) THEN sv.colsLeft ELSE sv.colsLeft \ {a[2]}
  IN  [sv EXCEPT
         !.flow[a] = x,
         !.basic = @ \cup {a},
         !.s[a[1]] = @ - x,
         !.d[a[2]] = @ - x,
         !.rowsLeft = rows,
         !.colsLeft = cols,
         !.state = IF rows = {} \/ cols = {} THEN "Iterating" ELSE "Initializing"]

(***************************************************************************)
(* One iteration of the Transportation-Simplex Solver.                     *)
(***************************************************************************)
\* Potentials by walking the tree of basic cells from u_1 = 0: a basic cell
\* with one end known fixes the other end by u_i + v_j = cost[i][j].
RECURSIVE Walk(_, _)
Walk(sv, p) ==
  LET toCol == {a \in sv.basic : a[1] \in p.rows /\ a[2] \notin p.cols}
      toRow == {a \in sv.basic : a[2] \in p.cols /\ a[1] \notin p.rows}
  IN  IF toCol # {}
        THEN LET a == CHOOSE x \in toCol : \A y \in toCol \ {x} : Before(x, y)
             IN  Walk(sv, [p EXCEPT !.cols = @ \cup {a[2]},
                                    !.v[a[2]] = CostAt(sv, a) - p.u[a[1]]])
      ELSE IF toRow # {}
        THEN LET a == CHOOSE x \in toRow : \A y \in toRow \ {x} : Before(x, y)
             IN  Walk(sv, [p EXCEPT !.rows = @ \cup {a[1]},
                                    !.u[a[1]] = CostAt(sv, a) - p.v[a[2]]])
      ELSE p

Potentials(sv) ==
  Walk(sv, [rows |-> {1}, cols |-> {},
            u |-> [r \in 1..sv.N |-> 0], v |-> [k \in 1..sv.M |-> 0]])

\* r = cost[i][j] - u_i - v_j
ReducedCost(sv, a) ==
  LET p == Potentials(sv) IN CostAt(sv, a) - p.u[a[1]] - p.v[a[2]]

\* With integer costs the reduced costs are integers, and r >= -epsilon for a
\* tolerance 0 < epsilon < 1 is r >= 0.
Improving(sv) == {a \in Cells(sv) \ sv.basic : ReducedCost(sv, a) < 0}

\* The entering cell: most negative reduced cost, ties by scan order.
Entering(sv) ==
  LET imp == Improving(sv)
  IN  CHOOSE a \in imp : \A b \in imp \ {a} :
        \/ ReducedCost(sv, a) < ReducedCost(sv, b)
        \/ (ReducedCost(sv, a) = ReducedCost(sv, b) /\ Before(a, b))

\* The cycle the entering cell forms with the basis: what is left of the
\* basis plus that cell once every cell alone in its row or its column is
\* dropped, again and again.
RECURSIVE Prune(_)
Prune(S) ==
  LET lone == {a \in S : \/ \A b \in S \ {a} : b[1] # a[1]
                         \/ \A b \in S \ {a} : b[2] # a[2]}
  IN  IF lone = {} THEN S ELSE Prune(S \ lone)

Cycle(sv, e) == Prune(sv.basic \cup {e})

\* The "-" cells of the cycle: starting from the entering cell e ("+"),
\* the sign alternates; a move along a row reaches a "-" cell and a move
\* along a column a "+" cell.
RECURSIVE MinusFrom(_, _, _, _, _)
MinusFrom(cyc, e, cur, alongRow, acc) ==
  LET k == IF alongRow THEN 1 ELSE 2
      nxt == CHOOSE b \in cyc : b # cur /\ b[k] = cur[k]
  IN  IF nxt = e THEN acc
      ELSE MinusFrom(cyc, e, nxt, ~alongRow, IF alongRow THEN acc \cup {nxt} ELSE acc)

MinusCells(sv, e) == MinusFrom(Cycle(sv, e), e, e, TRUE, {})

\* The adjustment taken as the largest flow on a "-" cell.
ThetaMax(sv, e) ==
  LET ms == MinusCells(sv, e)
  IN  sv.flow[CHOOSE a \in ms : \A b \in ms : sv.flow[a] >= sv.flow[b]]

\* The adjustment: the minimum flow on a "-" cell.
Theta(sv, e) ==
  LET ms == MinusCells(sv, e)
  IN  sv.flow[CHOOSE a \in ms : \A b \in ms : sv.flow[a] <= sv.flow[b]]

\* The leaving cell: the first, by scan order, of the "-" cells at the minimum.
Leaving(sv, e) ==
  LET ties == {a \in MinusCells(sv, e) : sv.flow[a] = Theta(sv, e)}
  IN  CHOOSE a \in ties : \A b \in ties \ {a} : Before(a, b)

\* The pivot: adjust the flow around the cycle and swap the entering cell
\* into the basis for the leaving cell.
Pivot(sv) ==
  LET e == Entering(sv)
      cyc == Cycle(sv, e)
      ms == MinusCells(sv, e)
      t == Theta(sv, e)
  IN  [sv EXCEPT
         !.flow = [a \in Cells(sv) |->
                     IF a \in ms THEN sv.flow[a] - t
                     ELSE IF a \in cyc THEN sv.flow[a] + t
                     ELSE sv.flow[a]],
         !.basic = (@ \cup {e}) \ {Leaving(sv, e)},
         !.iter = @ + 1]

CapFactor == 10

\* The hard iteration cap, 10 x (n + m).
IterationCap(sv) == CapFactor * (sv.n + sv.m)

\* The solver loop with the cap test turned round.
SolverStepCapTest(sv) ==
  IF Improving(sv) = {} THEN [sv EXCEPT !.state = "Optimal"]
  ELSE IF sv.iter <= IterationCap(sv)
    THEN [sv EXCEPT !.state = "Failed", !.error = "ConvergenceError"]
  ELSE Pivot(sv)

\* One pass of the solver loop in state Iterating: Optimal when no reduced
\* cost is negative, Failed (ConvergenceError) when the cap is reached
\* without that, a pivot otherwise.
SolverStep(sv) ==
  IF Improving(sv) = {} THEN [sv EXCEPT !.state = "Optimal"]
  ELSE IF sv.iter >= IterationCap(sv)
    THEN [sv EXCEPT !.state = "Failed", !.error = "ConvergenceError"]
  ELSE Pivot(sv)

\* Result Extractor: the sum of flow x cost over the basic cells; the dump
\* bin's cells cost 0 and add nothing.
RECURSIVE SumCost(_, _)
SumCost(sv, S) ==
  IF S = {} THEN 0
  ELSE LET a == CHOOSE x \in S : TRUE
       IN  sv.flow[a] * CostAt(sv, a) + SumCost(sv, S \ {a})

Extract(sv) == SumCost(sv, {a \in sv.basic : a[1] <= sv.n /\ a[2] <= sv.m})

\* One step of emd() from any state it can be in.
Step(sv) ==
  IF sv.state = "Initializing" THEN BuildStep(sv)
  ELSE IF sv.state = "Iterating" THEN SolverStep(sv)
  ELSE sv

Terminal(sv) == sv.state \in {"NotStarted", "Optimal", "Failed"}

\* emd() run to its end.
RECURSIVE Finish(_)
Finish(sv) == IF Terminal(sv) THEN sv ELSE Finish(Step(sv))

EmdRun(sig1, sig2, cc) == Finish(EmdStart(sig1, sig2, cc))

\* The float emd() hands back.  Its C interface has no other channel: for a
\* run that did not end Optimal this is the cost of whatever flow it holds.
EmdValue(sv) == IF sv.state = "NotStarted" THEN 0 ELSE Extract(sv)

(***************************************************************************)
(* compute_emd, lines 89-99: the signatures, the call of emd() and the     *)
(* returned Python float.  The call is shown step by step: entry, one      *)
(* builder step or one solver iteration at a time, and the return.         *)
(***************************************************************************)
\* The call with the two signatures in the wrong order.
EmdEnterSwapped ==
  /\ pc = "emd"
  /\ emdCalled' = TRUE
  /\ solver' = EmdStart([n |-> length2, Weights |-> w2], [n |-> length1, Weights |-> w1], c)
  /\ pc' = "solving"
  /\ UNCHANGED <<outcome, errmsg, distance, result>>
  /\ UNCHANGED loopVars /\ UNCHANGED argVars /\ UNCHANGED refVars

signature1 == [n |-> length1, Weights |-> w1]
signature2 == [n |-> length2, Weights |-> w2]

EmdEnter ==
  /\ pc = "emd"
  /\ emdCalled' = TRUE
  /\ solver' = EmdStart(signature1, signature2, c)
  /\ pc' = "solving"
  /\ UNCHANGED <<outcome, errmsg, distance, result>>
  /\ UNCHANGED loopVars /\ UNCHANGED argVars /\ UNCHANGED refVars

EmdBuild ==
  /\ pc = "solving"
  /\ solver.state = "Initializing"
  /\ solver' = BuildStep(solver)
  /\ UNCHANGED pc
  /\ UNCHANGED loopVars /\ UNCHANGED argVars /\ UNCHANGED refVars /\ UNCHANGED endVars

EmdIterate ==
  /\ pc = "solving"
  /\ solver.state = "Iterating"
  /\ solver' = SolverStep(solver)
  /\ UNCHANGED pc
  /\ UNCHANGED loopVars /\ UNCHANGED argVars /\ UNCHANGED refVars /\ UNCHANGED endVars

EmdReturn ==
  /\ pc = "solving"
  /\ Terminal(solver)
  /\ distance' = EmdValue(solver)
  /\ pc' = "ret"
  /\ UNCHANGED <<outcome, errmsg, emdCalled, result, solver>>
  /\ UNCHANGED loopVars /\ UNCHANGED argVars /\ UNCHANGED refVars

\* return Py_BuildValue("d", distance);
Return ==
  /\ pc = "ret"
  /\ result' = distance
  /\ outcome' = "returned"
  /\ pc' = "done"
  /\ UNCHANGED <<errmsg, emdCalled, distance, solver>>
  /\ UNCHANGED loopVars /\ UNCHANGED argVars /\ UNCHANGED refVars

EmdNext == EmdEnter \/ EmdBuild \/ EmdIterate \/ EmdReturn \/ Return

Next ==
  \/ CheckArgs
  \/ Loop1Fetch \/ Loop1Check
  \/ Loop2Fetch \/ Loop2Check
  \/ Loop3Fetch \/ Loop3Check
  \/ Loop3NullCrash \/ Loop3NullError \/ Loop3NullGoOn
  \/ EmdNext

Spec == Init /\ [][Next]_vars

(***************************************************************************)
(* The solver on its own: the calls that reach line 89 with n, m >= 1,     *)
(* weights >= 0 and a cost sequence of length n*m.                         *)
(***************************************************************************)
Floats(s) == [k \in 1..Len(s) |-> PyFloat(s[k])]

InitSolver ==
  \E n \in 1..MaxBins : \E m \in {k \in 1..MaxBins : n * k <= MaxCells} :
    \E ws1 \in [1..n -> 0..MaxWeight], ws2 \in [1..m -> 0..MaxWeight],
       cs \in [1..(n * m) -> CostValues] :
      /\ weight1 = PySeq(Floats(ws1))
      /\ weight2 = PySeq(Floats(ws2))
      /\ cost = PySeq(Floats(cs))
      /\ pc = "emd"
      /\ i = n * m /\ length1 = n /\ length2 = m
      /\ w1 = ws1 /\ w2 = ws2 /\ c = cs
      /\ item = PyFloat(cs[n * m])
      /\ refs = 0 /\ fetched = n + m + n * m /\ released = n + m + n * m
      /\ nullSeen = FALSE
      /\ outcome = "none" /\ errmsg = ""
      /\ emdCalled = FALSE /\ distance = 0 /\ result = 0
      /\ solver = NoSolver

SolverSpec == InitSolver /\ [][EmdNext]_vars

(***************************************************************************)
(* What the properties below speak of.                                     *)
(***************************************************************************)
ArgN == Len(weight1.items)
ArgM == Len(weight2.items)
NonNumber(o) == o.kind \notin {"int", "float"}
BadWeight1 == ~weight1.seq \/ \E k \in 1..ArgN : NonNumber(weight1.items[k])
BadWeight2 == ~weight2.seq \/ \E k \in 1..ArgM : NonNumber(weight2.items[k])
BadCost ==
  \/ ~cost.seq
  \/ \E k \in 1..Min(ArgN * ArgM, Len(cost.items)) : NonNumber(cost.items[k])

\* The error text names an argument that did fail.
NamesFailing ==
  \/ errmsg \in {"weight1 must be a sequence", "w1 should be a sequence of numbers"}
       /\ BadWeight1
  \/ errmsg \in {"weight2 must be a sequence", "w2 should be a sequence of numbers"}
       /\ BadWeight2
  \/ errmsg = "cost should be a sequence of numbers" /\ BadCost

AllNumbers == ~BadWeight1 /\ ~BadWeight2 /\ ~BadCost

\* C1: a call with a non-sequence weight1, weight2 or cost, or with a
\* non-numeric element in weight1, weight2 or the first n*m of cost, ends with
\* an error naming the failing argument, and emd() is never invoked in it.
ClaimC1 ==
  (BadWeight1 \/ BadWeight2 \/ BadCost) =>
     /\ ~emdCalled
     /\ pc = "done" => (outcome = "error" /\ NamesFailing)

\* C2: a call whose cost has a length other than n*m fails before any
\* solving: emd() is never started and no scalar is returned.
ClaimC2 ==
  (weight1.seq /\ weight2.seq /\ cost.seq /\ Len(cost.items) # ArgN * ArgM) =>
     /\ ~emdCalled
     /\ outcome # "returned"
     /\ pc = "done" => outcome = "error"

\* C3: a call with n = 0, m = 0 or a negative weight fails with an error and
\* the solver is never started.
ClaimC3 ==
  (/\ AllNumbers
   /\ \/ ArgN = 0
      \/ ArgM = 0
      \/ \E k \in 1..ArgN : weight1.items[k].val < 0
      \/ \E k \in 1..ArgM : weight2.items[k].val < 0) =>
     /\ solver.state = "NotStarted"
     /\ outcome # "returned"
     /\ pc = "done" => outcome = "error"

\* C4: every call ends either returning a scalar >= 0 or raising an explicit
\* error; a call in which emd() hit an error or ended Failed never returns a
\* scalar.
ClaimC4 ==
  pc = "done" =>
     \/ outcome = "error"
     \/ outcome = "returned" /\ result >= 0 /\ solver.error = "none"
                              /\ solver.state # "Failed"

\* C10: as long as every fetch returned an item, compute_emd holds at most
\* one item reference, holds exactly one between a fetch and its check and
\* none at any other point, never releases more than it obtained, and holds
\* none once it has returned.
ClaimC10 ==
  ~nullSeen =>
     /\ refs \in {0, 1}
     /\ fetched = released + refs
     /\ refs = 1 <=> pc \in {"loop1_chk", "loop2_chk", "loop3_chk"}
     /\ pc = "done" => fetched = released

\* C10's case: the call returned on a non-numeric cost element after the
\* weights and at least one cost element were converted.
WitnessC10 ==
  /\ pc = "done" /\ ~nullSeen
  /\ errmsg = "cost should be a sequence of numbers"
  /\ Len(c) >= 1
  /\ fetched = Len(w1) + Len(w2) + Len(c) + 1
  /\ released = fetched

(***************************************************************************)
(* The reference the solver's result is compared with: the least cost of   *)
(* a flow over the n x m cells, found by trying every integer flow.        *)
(***************************************************************************)
\* The costs of the flows that fill cells k, k+1, ... of the row-major
\* matrix from the supplies s and demands d left, and leave `spare` supply
\* unshipped in all.
RECURSIVE FlowCosts(_, _, _, _, _, _)
FlowCosts(k, m, cc, s, d, spare) ==
  IF k > Len(cc)
    THEN IF SumSeq(s) = spare THEN {0} ELSE {}
    ELSE LET r == ((k - 1) \div m) + 1
             q == ((k - 1) % m) + 1
         IN  UNION {{x * cc[k] + rest :
                       rest \in FlowCosts(k + 1, m, cc, [s EXCEPT ![r] = @ - x],
                                          [d EXCEPT ![q] = @ - x], spare)} :
                    x \in 0..Min(s[r], d[q])}

SetMin(S) == CHOOSE x \in S : \A y \in S : x <= y

\* min over the flows within every supply and demand that carry
\* min(sum(ws1), sum(ws2)) in all, of the sum of flow * cost.
MinCost(ws1, ws2, cc) ==
  LET t1 == SumSeq(ws1)
      t2 == SumSeq(ws2)
  IN  SetMin(FlowCosts(1, Len(ws2), cc, ws1, ws2, t1 - Min(t1, t2)))

Returned == pc = "done" /\ outcome = "returned"

\* C5: when the solver reaches Optimal, its distance, and the scalar the
\* call returns, is the least cost of a flow that respects every supply and
\* demand and carries min(sum(weights1), sum(weights2)); the three stated
\* scenarios return 5, 2 and 0.
ClaimC5 ==
  /\ solver.state = "Optimal" => Extract(solver) = MinCost(w1, w2, c)
  /\ (Returned /\ solver.state = "Optimal") => result = MinCost(w1, w2, c)
  /\ (Returned /\ w1 = <<1>> /\ w2 = <<1>> /\ c = <<5>>) => result = 5
  /\ (Returned /\ w1 = <<2, 0>> /\ w2 = <<0, 2>> /\ c = <<0, 1, 1, 0>>) => result = 2
  /\ (Returned /\ w1 = <<1, 1>> /\ w2 = <<1, 1>> /\ c = <<0, 2, 2, 0>>) => result = 0

\* C5's case: a call that returned a positive optimal distance after the
\* solver pivoted more than once.
WitnessC5 ==
  /\ Returned /\ solver.state = "Optimal"
  /\ solver.iter >= 2
  /\ result > 0 /\ result = MinCost(w1, w2, c)

\* The float emd() returns on the call's cost matrix for other weights.
EmdOf(ws1, ws2) ==
  EmdValue(EmdRun([n |-> Len(ws1), Weights |-> ws1], [n |-> Len(ws2), Weights |-> ws2], c))

\* The results with one more unit of weight in one bin of the larger side.
Heavier ==
  IF SumSeq(w1) > SumSeq(w2)
    THEN {EmdOf([w1 EXCEPT ![k] = @ + 1], w2) : k \in 1..Len(w1)}
    ELSE {EmdOf(w1, [w2 EXCEPT ![k] = @ + 1]) : k \in 1..Len(w2)}

Unbalanced == SumSeq(w1) # SumSeq(w2)

\* C6 as stated: with unequal totals the result is the least cost of a
\* matching of size min(sum(weights1), sum(weights2)), and one more unit of
\* weight in any bin of the larger side leaves the result unchanged.
ClaimC6 ==
  (Returned /\ Unbalanced) =>
     /\ result = MinCost(w1, w2, c)
     /\ \A r \in Heavier : r = result

\* C6 amended: with unequal totals the result is the least cost of a
\* matching of size min(sum(weights1), sum(weights2)), and one more unit of
\* weight in any bin of the larger side never raises the result.
AmendedC6 ==
  (Returned /\ Unbalanced) =>
     /\ result = MinCost(w1, w2, c)
     /\ \A r \in Heavier : r <= result

\* C6's case: unequal totals, and a heavier bin on the larger side that
\* lowers the result.
WitnessC6 ==
  /\ Returned /\ Unbalanced
  /\ \E r \in Heavier : r < result

RECURSIVE SumFlow(_, _)
SumFlow(sv, S) ==
  IF S = {} THEN 0
  ELSE LET a == CHOOSE x \in S : TRUE IN sv.flow[a] + SumFlow(sv, S \ {a})

Built == solver.state \in {"Iterating", "Optimal", "Failed"}

\* C7: once the initial basis is built, and after every pivot, all flows are
\* >= 0, no supply bin ships more than its weight, no demand bin receives more
\* than its weight, and the flow over the real (non-dump) cells totals
\* min(total supply, total demand).
ClaimC7 ==
  Built =>
     /\ \A a \in Cells(solver) : solver.flow[a] >= 0
     /\ \A r \in 1..length1 : SumFlow(solver, {r} \X (1..length2)) <= w1[r]
     /\ \A q \in 1..length2 : SumFlow(solver, (1..length1) \X {q}) <= w2[q]
     /\ SumFlow(solver, (1..length1) \X (1..length2)) = Min(SumSeq(w1), SumSeq(w2))

\* C7's case: unequal totals, and a pivot has moved flow.
WitnessC7 ==
  /\ solver.state = "Iterating" /\ solver.iter >= 1
  /\ Unbalanced
  /\ \E a \in RealCells(solver) : solver.flow[a] > 0

\* A step the state machine allows: Initializing on entry; in Initializing
\* one more basic cell, staying there or going to Iterating; in Iterating one
\* more pivot, or no pivot and Optimal or Failed; nothing out of Optimal or
\* Failed.
LegalMove ==
  \/ solver' = solver
  \/ solver = NoSolver /\ solver'.state = "Initializing"
  \/ /\ solver.state = "Initializing"
     /\ solver'.state \in {"Initializing", "Iterating"}
     /\ Cardinality(solver'.basic) = Cardinality(solver.basic) + 1
     /\ solver'.iter = 0
  \/ /\ solver.state = "Iterating"
     /\ \/ solver'.state = "Iterating" /\ solver'.iter = solver.iter + 1
        \/ solver'.state \in {"Optimal", "Failed"} /\ solver'.iter = solver.iter

JustBuilt == solver.state = "Iterating" /\ solver.iter = 0
RealBasic == solver.basic \cap RealCells(solver)
NonDegenerate == \A a \in solver.basic : solver.flow[a] > 0

\* The builder's result meets every row and column constraint (each supply
\* and demand of the balanced problem met exactly, flow only on basic cells,
\* hence no real bin over its weight) and its basic cells hold no cycle.
BuiltWell ==
  /\ \A r \in 1..solver.N : SumFlow(solver, {r} \X (1..solver.M)) = solver.supply[r]
  /\ \A q \in 1..solver.M : SumFlow(solver, (1..solver.N) \X {q}) = solver.demand[q]
  /\ \A a \in Cells(solver) : solver.flow[a] >= 0
  /\ \A a \in Cells(solver) \ solver.basic : solver.flow[a] = 0
  /\ Prune(solver.basic) = {}

====
